---- MODULE Spec2Model ----
(***************************************************************************)
(* Model of dbx: scan (the row decoder behind Select and Get), the         *)
(* Scanner combinators Filter / Map / Collect, and the Get entry point.    *)
(* One iteration of one pipeline  consumer(chain(scan[T](q, query)))  is   *)
(* followed statement by statement; the query engine (QueryContext, Rows)  *)
(* is the environment and answers nondeterministically.                    *)
(* Further components have specifications of their own: Mapper.TypeMap    *)
(* called from several goroutines (SpecMapper), getMapping with            *)
(* buildStructMap run on one set of struct declarations (SpecMapping),     *)
(* TraversalsByName on the map so built (SpecTraversals), and the row      *)
(* loops of scan with the storage they decode into (SpecLoop).             *)
(***************************************************************************)
EXTENDS Integers, Sequences, FiniteSets, TLC

\* ---------------------------------------------------------------- bounds
MaxRows  == 2   \* rows a cursor holds, at most
MaxCols  == 2   \* columns a cursor reports, at most
MaxChain == 2   \* Filter / Map wrappers around Select, at most
MaxCap   == 2   \* capacity hint given to CollectCap, at most
MaxRuns  == 1   \* further iterations of one Scanner value, at most
MaxProcs == 2   \* goroutines calling TypeMap on one Mapper
MaxCalls == 2   \* TypeMap calls per goroutine, at most
MaxFields == 3  \* fields declared by the struct types given to getMapping, in all
MaxIndex == 40  \* FieldInfos in getMapping's index before the search is cut
MaxDecl  == 2   \* fields declared in all where TraversalsByName is called

\* ---------------------------------------------------------------- errors
\* An error value: its origin and whether errors.Is(err, sql.ErrNoRows).
Nil == [kind |-> "nil", noRows |-> FALSE, col |-> ""]

\* An error of the query engine (it may or may not be sql.ErrNoRows).
Error(kind, noRows) == [kind |-> kind, noRows |-> noRows, col |-> ""]

\* fmt.Errorf("non-struct dest type %s with >1 columns (%d)", ...)
ColumnCountError == [kind |-> "count", noRows |-> FALSE, col |-> ""]

\* fmt.Errorf("missing destination name %s in %T", columns[f], base)
MissingFieldError(col) == [kind |-> "missing", noRows |-> FALSE, col |-> col]

\* errors.New("fieldsByTraversal argument must be a struct")
NotStructError == [kind |-> "notstruct", noRows |-> FALSE, col |-> ""]

\* ---------------------------------------------------------------- types
\* Destination types T of scan[T] (those of TestSelect / TestGet).
Types == {"Person", "*Person", "string", "*string", "sql.Null[string]", "time.Time"}

IsPtr(t) == t \in {"*Person", "*string", "*A", "*B", "*Holder"}

derefType(t) ==
    CASE t = "*Person" -> "Person"
      [] t = "*string" -> "string"
      [] t = "*A"      -> "A"
      [] t = "*B"      -> "B"
      [] t = "*Holder" -> "Holder"
      [] OTHER         -> t

IsStruct(t) == t \in {"Person", "sql.Null[string]", "time.Time", "A", "B", "Holder", "Emailer"}

\* reflect.PointerTo(t).Implements(sql.Scanner)
ImplementsScanner(t) == t = "sql.Null[string]"

\* StructMap.Names of DefaultMapper.TypeMap(t): column name -> Traversal.
TypeMapNames(t) ==
    IF t = "Person"
    THEN [n \in {"first_name", "last_name", "added_at", "email"} |->
            CASE n = "first_name" -> <<0>>
              [] n = "last_name"  -> <<1>>
              [] n = "added_at"   -> <<2>>
              [] n = "email"      -> <<3, 0>>]
    ELSE IF t = "sql.Null[string]"
    THEN [n \in {"v", "valid"} |-> IF n = "v" THEN <<0>> ELSE <<1>>]
    ELSE IF t = "Holder"
    THEN [n \in {"first_name", "email"} |-> IF n = "first_name" THEN <<0>> ELSE <<1, 0>>]
    ELSE IF t = "Emailer"
    THEN [n \in {"email"} |-> <<0>>]
    ELSE [n \in {} |-> <<>>]

\* len(StructMap.Index) of DefaultMapper.TypeMap(t).
TypeMapIndexLen(t) ==
    IF t = "Person" THEN 5
    ELSE IF t = "sql.Null[string]" THEN 2
    ELSE IF t = "Holder" THEN 3
    ELSE IF t = "Emailer" THEN 1
    ELSE 0

\* isScannable without its last return: a struct is a scalar by its Scan
\* method only.
isScannableByMethod(t) ==
    \/ ImplementsScanner(t)
    \/ ~IsStruct(t)

isScannable(t) ==
    \/ ImplementsScanner(t)
    \/ ~IsStruct(t)
    \/ TypeMapIndexLen(t) = 0

\* Leaf storage locations of a struct value, by traversal.
Leaves(t) == {TypeMapNames(t)[n] : n \in DOMAIN TypeMapNames(t)}

\* ---------------------------------------------------------------- values
\* The value the cursor holds in row r, column c: all cells differ.
Cell(r, c) == 10 * r + c

Scalar(n) == [k |-> "scalar", v |-> n]

ZeroStruct(t) == [k |-> "struct", f |-> [p \in Leaves(t) |-> 0]]

NilPtr == [k |-> "nil"]

PtrTo(v) == [k |-> "ptr", to |-> v]

\* var t T
Zero(t) ==
    IF IsPtr(t) THEN NilPtr
    ELSE IF isScannable(t) THEN Scalar(0)
    ELSE ZeroStruct(t)

\* The map function of Map, and the zero value of its result type U.
Fn(v) == [k |-> "fn", of |-> v]

ZeroU == [k |-> "fn", of |-> NilPtr]

Elem(val, err) == [val |-> val, err |-> err]

\* ---------------------------------------------------------------- state
VARIABLES
    q,          \* the Queryer: kind "DB" (*dbx.DB) or "other", with DB's flags
    T,          \* destination type of scan[T]
    cols,       \* column names the cursor reports
    avail,      \* rows the cursor holds
    chain,      \* wrappers around scan, innermost first: "Filter" / "Map"
    consumer,   \* "range" (caller's loop), "Collect" (slice) or "Get"
    pc,         \* position inside scan
    opened,     \* QueryContext returned a cursor
    columns,    \* scan's local columns
    fields,     \* scan's local fields (traversals)
    pulled,     \* rows for which rows.Next returned true
    nextCalls, scanCalls, closeCalls,   \* calls of rows.Next / Scan / Close
    predCalls, fnCalls,                 \* calls of Filter's fn / Map's fn
    yields,     \* elements scan passed to its yield
    delivered,  \* elements that reached the consumer's loop body
    stopped,    \* the consumer's loop body returned false (break / return)
    res,        \* slice's local res
    ret,        \* return statement executed inside the consumer's loop body
    result,     \* what Collect / Get returned
    cap,        \* capacity hint of CollectCap (0 for Collect)
    predLog,    \* calls of Filter's fn so far: argument and answer
    runs,       \* iterations of the same Scanner value already over
    queries,    \* calls of q.QueryContext, over all iterations
    opens,      \* cursors returned by q.QueryContext, over all iterations
    \* Mapper.TypeMap called from several goroutines
    cache,      \* Mapper.cache: type -> *StructMap (0: no entry)
    mutex,      \* Mapper.mutex: goroutine holding it (0: unlocked)
    tpc,        \* per goroutine: position inside TypeMap
    targ,       \* per goroutine: TypeMap's argument t
    mapping,    \* per goroutine: TypeMap's local mapping
    built,      \* per type: calls of getMapping
    got,        \* per type: the *StructMap values TypeMap returned
    calls,      \* per goroutine: TypeMap calls finished
    \* getMapping / buildStructMap on one record type
    env,        \* the struct types: name -> fields
    queue,      \* getMapping's queue
    Index,      \* getMapping's m / StructMap.Index: every FieldInfo, in discovery order
    mpc,        \* "bfs" (getMapping's loop), "build" (buildStructMap's loop), "done"
    bpos,       \* buildStructMap: entries of Index already handled
    paths,      \* buildStructMap's paths: path -> position in Index
    Names,      \* StructMap.Names: path -> position in Index
    travs,      \* the outcome of a TraversalsByName call on the built map
    dst,        \* the row loop: T
    colnames,   \* the row loop: columns
    nrows,      \* the row loop: rows the cursor holds
    rowNo,      \* the row loop: rows pulled
    lpc,        \* the row loop: position
    heap,       \* allocated objects, by address (from 1; 0 is nil)
    vp,         \* address of the destination of the current row
    valuePtrs,  \* scan's values: per column, the location rows.Scan writes to
    yielded     \* the values yielded, as the consumer holds them

config == <<q, T, cols, avail, chain, consumer, cap>>

history == <<runs, queries, opens>>

mapperVars == <<cache, mutex, tpc, targ, mapping, built, got, calls>>

mappingVars == <<env, queue, Index, mpc, bpos, paths, Names, travs>>

loopVars == <<dst, colnames, nrows, rowNo, lpc, heap, vp, valuePtrs, yielded>>

\* What scan and its consumers never touch.
apart == <<mapperVars, mappingVars, loopVars>>

cursor == <<opened, columns, fields, pulled, nextCalls, scanCalls, closeCalls>>

sink == <<predCalls, fnCalls, yields, delivered, stopped, res, ret, predLog>>

scanVars == <<config, pc, cursor, sink, result, history>>

vars == <<scanVars, apart>>

ColNames == {"first_name", "email", "nope"}

Queryers ==
    {[kind |-> "other", noRowsErr |-> FALSE, isUnsafe |-> FALSE]}
    \cup [kind : {"DB"}, noRowsErr : BOOLEAN, isUnsafe : BOOLEAN]

\* Column names tried with destination t. scan only counts the columns of a
\* scalar destination (len(columns)), so one name stands for all there.
ColumnNamesFor(t) == IF isScannable(derefType(t)) THEN {"first_name"} ELSE ColNames

SeqsUpTo(S, n) == UNION {[1..m -> S] : m \in 0..n}

NoRet == [set |-> FALSE, val |-> [k |-> "none"], err |-> Nil]

Return(val, err) == [set |-> TRUE, val |-> val, err |-> err]

SliceOf(isNil, elems) == [k |-> "slice", isNil |-> isNil, elems |-> elems]

\* ---------------------------------------------------------------- mapper
\* TraversalsByName giving up at the first name the map does not have.
namedTraversalsStopAtMissing(tm, names) ==
    LET missing == {i \in 1..Len(names) : names[i] \notin DOMAIN tm}
        n == IF missing = {} THEN Len(names)
             ELSE (CHOOSE i \in missing : \A j \in missing : i <= j) - 1
    IN  [i \in 1..n |-> tm[names[i]]]

\* The loop of TraversalsByName over names; tm is Names with each
\* descriptor's Traversal.
namedTraversals(tm, names) ==
    [i \in 1..Len(names) |->
        IF names[i] \in DOMAIN tm THEN tm[names[i]] ELSE <<>>]

TraversalsByName(t, names) == namedTraversals(TypeMapNames(derefType(t)), names)

\* missingFields reporting position 0 whatever the empty traversal is.
missingFieldsFirst(traversals) ==
    [field |-> 1, err |-> \E i \in 1..Len(traversals) : Len(traversals[i]) = 0]

\* Position (from 1) of the first empty traversal, and whether there is one.
missingFields(traversals) ==
    LET empty == {i \in 1..Len(traversals) : Len(traversals[i]) = 0}
    IN  IF empty = {} THEN [field |-> 1, err |-> FALSE]
        ELSE [field |-> CHOOSE i \in empty : \A j \in empty : i <= j,
              err |-> TRUE]

\* fieldsByTraversal binding an unmapped column to the first field.
fieldsByTraversalNoDiscard(traversals) ==
    [i \in 1..Len(traversals) |->
        [k |-> "field", at |-> IF Len(traversals[i]) = 0 THEN <<0>> ELSE traversals[i]]]

\* values: per column, the location rows.Scan writes to.
fieldsByTraversal(traversals) ==
    [i \in 1..Len(traversals) |->
        IF Len(traversals[i]) = 0
        THEN [k |-> "discard", at |-> <<>>]
        ELSE [k |-> "field", at |-> traversals[i]]]

\* rows.Scan(values...) on row r: column c is written to values[c], in order.
RECURSIVE ScanInto(_, _, _, _)
ScanInto(f, values, r, c) ==
    IF c > Len(values) THEN f
    ELSE ScanInto(IF values[c].k = "field"
                  THEN [f EXCEPT ![values[c].at] = Cell(r, c)]
                  ELSE f,
                  values, r, c + 1)

\* The value scan yields for row r of a composite destination.
DecodeStruct(t, traversals, r) ==
    LET v == [k |-> "struct",
              f |-> ScanInto(ZeroStruct(derefType(t)).f,
                             fieldsByTraversal(traversals), r, 1)]
    IN  IF IsPtr(t) THEN PtrTo(v) ELSE v

\* The value scan yields for row r of a scalar destination.
DecodeScalar(t, r) ==
    IF IsPtr(t) THEN PtrTo(Scalar(Cell(r, 1))) ELSE Scalar(Cell(r, 1))

\* ---------------------------------------------------------------- consumers
\* Get's loop body: always returns.
GetBody(e) ==
    IF e.err # Nil /\ q.kind = "DB" /\ ~q.noRowsErr /\ e.err.noRows
    THEN Return(e.val, Nil)
    ELSE Return(e.val, e.err)

\* Get reporting the absence of a row as an error.
GetEndNoRows == Return(Zero(T), Error("norows", TRUE))

\* Get after the loop.
GetEnd == Return(Zero(T), Nil)

\* slice putting each element in front of res.
sliceBodyPrepend(r, e) ==
    IF e.err # Nil
    THEN [res |-> r, ret |-> Return(SliceOf(TRUE, <<>>), e.err)]
    ELSE [res |-> <<e.val>> \o r, ret |-> NoRet]

\* slice returning what it has collected along with the error.
sliceBodyKeepsPartial(r, e) ==
    IF e.err # Nil
    THEN [res |-> r, ret |-> Return(SliceOf(FALSE, r), e.err)]
    ELSE [res |-> Append(r, e.val), ret |-> NoRet]

\* slice's loop body: new res, and the return statement if any.
sliceBody(r, e) ==
    IF e.err # Nil
    THEN [res |-> r, ret |-> Return(SliceOf(TRUE, <<>>), e.err)]
    ELSE [res |-> Append(r, e.val), ret |-> NoRet]

\* slice after the loop.
sliceEnd(r) == Return(SliceOf(FALSE, r), Nil)

\* Get going on to the end of the rows.
ConsumerStopsGetAll(e, brk) ==
    CASE consumer = "Get"     -> e.err # Nil
      [] consumer = "Collect" -> e.err # Nil
      [] OTHER                -> brk

\* Whether the consumer's loop body ends the loop on element e.
ConsumerStops(e, brk) ==
    CASE consumer = "Get"     -> TRUE
      [] consumer = "Collect" -> sliceBody(res, e).ret.set
      [] OTHER                -> brk

\* ---------------------------------------------------------------- combinators
\* What one yield produced further out: the element that reached the
\* consumer (if any), whether the consumer's loop body ended its loop,
\* what yield returned, and the calls of Filter's and Map's fn made.
Outcome(out, stop, cont, pred, fn) ==
    [out |-> out, stop |-> stop, cont |-> cont, pred |-> pred, fn |-> fn, log |-> <<>>]

\* One call of Filter's fn.
PredCall(arg, accept) == [arg |-> arg, accept |-> accept]

\* Filter going on after yield returned false.
FilterIgnoresStop(e, accept, down) ==
    IF e.err # Nil THEN [down EXCEPT !.cont = FALSE]
    ELSE IF ~accept
    THEN [Outcome(<<>>, FALSE, TRUE, 1, 0) EXCEPT !.log = <<PredCall(e.val, FALSE)>>]
    ELSE [down EXCEPT !.pred = @ + 1, !.cont = TRUE, !.log = <<PredCall(e.val, TRUE)>> \o @]

\* Filter yielding the rows its fn refuses as well.
FilterKeepsRefused(e, accept, down) ==
    IF e.err # Nil THEN [down EXCEPT !.cont = FALSE]
    ELSE [down EXCEPT !.pred = @ + 1, !.log = <<PredCall(e.val, accept)>> \o @]

\* Filter's loop body on element e; accept = fn(row), down = outcome of yield.
Filter(e, accept, down) ==
    IF e.err # Nil THEN [down EXCEPT !.cont = FALSE]
    ELSE IF ~accept
    THEN [Outcome(<<>>, FALSE, TRUE, 1, 0) EXCEPT !.log = <<PredCall(e.val, FALSE)>>]
    ELSE [down EXCEPT !.pred = @ + 1, !.log = <<PredCall(e.val, TRUE)>> \o @]

\* Map passing fn(row), not a zero U, along with an error.
MapElemKeepsRow(e) == Elem(Fn(e.val), e.err)

\* The element Map's loop body passes to yield.
MapElem(e) == IF e.err # Nil THEN Elem(ZeroU, e.err) ELSE Elem(Fn(e.val), Nil)

\* Map's loop body on element e; down = outcome of yield.
Map(e, down) ==
    IF e.err # Nil THEN [down EXCEPT !.cont = FALSE]
    ELSE [down EXCEPT !.fn = @ + 1]

\* Element e arrives at wrapper i (beyond the last wrapper: the consumer).
RECURSIVE Pass(_, _, _, _)
Pass(i, e, dec, brk) ==
    IF i > Len(chain)
    THEN Outcome(<<e>>, ConsumerStops(e, brk), ~ConsumerStops(e, brk), 0, 0)
    ELSE IF chain[i] = "Filter" THEN Filter(e, dec[i], Pass(i + 1, e, dec, brk))
    ELSE Map(e, Pass(i + 1, MapElem(e), dec, brk))

\* scan calls yield(e.val, e.err): effect on everything outside scan.
Yield(e, o) ==
    /\ yields' = Append(yields, e)
    /\ predCalls' = predCalls + o.pred
    /\ fnCalls' = fnCalls + o.fn
    /\ predLog' = predLog \o o.log
    /\ delivered' = delivered \o o.out
    /\ stopped' = (stopped \/ o.stop)
    /\ IF o.out = <<>> THEN UNCHANGED <<res, ret>>
       ELSE CASE consumer = "Collect" ->
                   /\ res' = sliceBody(res, o.out[1]).res
                   /\ ret' = sliceBody(res, o.out[1]).ret
              [] consumer = "Get" ->
                   /\ ret' = GetBody(o.out[1])
                   /\ res' = res
              [] OTHER -> UNCHANGED <<res, ret>>

Outcomes(e) ==
    {Pass(1, e, dec, brk) : dec \in [1..Len(chain) -> BOOLEAN], brk \in BOOLEAN}

\* ---------------------------------------------------------------- scan
\* No goroutine is in TypeMap.
MapperIdle ==
    /\ cache = <<>> /\ mutex = 0
    /\ tpc = <<>> /\ targ = <<>> /\ mapping = <<>>
    /\ built = <<>> /\ got = <<>> /\ calls = <<>>

\* No getMapping is running.
MappingIdle ==
    /\ env = <<>> /\ queue = <<>> /\ Index = <<>>
    /\ mpc = "idle" /\ bpos = 0
    /\ paths = <<>> /\ Names = <<>>
    /\ travs = <<>>

\* No row loop is running.
LoopIdle ==
    /\ dst = "Person" /\ colnames = <<>> /\ nrows = 0 /\ rowNo = 0
    /\ lpc = "done"
    /\ heap = <<>> /\ vp = 0 /\ valuePtrs = <<>> /\ yielded = <<>>

\* A pipeline consumer(chain(scan[T](q, query))) before its first iteration.
Start ==
    /\ LoopIdle
    /\ q \in Queryers
    /\ T \in Types
    /\ cols \in SeqsUpTo(ColumnNamesFor(T), MaxCols)
    /\ avail \in 0..MaxRows
    /\ chain \in SeqsUpTo({"Filter", "Map"}, MaxChain)
    /\ consumer \in {"range", "Collect", "Get"}
    /\ consumer = "Get" => chain = <<>>
    \* flags nothing reads are left at their default: noRowsErr is read by
    \* Get only, isUnsafe for a composite destination only
    /\ q.noRowsErr => consumer = "Get"
    /\ q.isUnsafe => ~isScannable(derefType(T))
    /\ pc = "query"
    /\ opened = FALSE
    /\ columns = <<>>
    /\ fields = <<>>
    /\ pulled = 0
    /\ nextCalls = 0 /\ scanCalls = 0 /\ closeCalls = 0
    /\ predCalls = 0 /\ fnCalls = 0
    /\ yields = <<>> /\ delivered = <<>>
    /\ stopped = FALSE
    /\ res = <<>>
    /\ ret = NoRet
    /\ result = NoRet
    /\ predLog = <<>>
    /\ runs = 0 /\ queries = 0 /\ opens = 0
    /\ MapperIdle
    /\ MappingIdle

\* No pipeline is running.
ScanIdle ==
    /\ q = [kind |-> "other", noRowsErr |-> FALSE, isUnsafe |-> FALSE]
    /\ T = "Person"
    /\ cols = <<>> /\ avail = 0 /\ chain = <<>> /\ consumer = "range" /\ cap = 0
    /\ pc = "done"
    /\ opened = FALSE
    /\ columns = <<>> /\ fields = <<>>
    /\ pulled = 0
    /\ nextCalls = 0 /\ scanCalls = 0 /\ closeCalls = 0
    /\ predCalls = 0 /\ fnCalls = 0
    /\ yields = <<>> /\ delivered = <<>>
    /\ stopped = FALSE
    /\ res = <<>> /\ ret = NoRet /\ result = NoRet
    /\ predLog = <<>>
    /\ runs = 0 /\ queries = 0 /\ opens = 0

\* Select / Get with Collect() for the slice: no capacity hint.
Init == Start /\ cap = 0

\* Capacity hints tried: none, and one at least as large as any result.
CapHints == {0, MaxCap}

\* Select(...) [.Filter / Map] .CollectCap(cap)
InitCollect == Start /\ consumer = "Collect" /\ cap \in CapHints

\* Ranging over a Scanner value returned by Select, possibly more than once.
InitIter == Start /\ consumer = "range" /\ chain = <<>> /\ cap = 0

\* Whether an error of the engine is sql.ErrNoRows: the engine decides. Get
\* alone asks (errors.Is), so for the other consumers one answer stands for both.
IsNoRows == IF consumer = "Get" THEN BOOLEAN ELSE {FALSE}

\* return, without the yield: the failure ends the iteration unseen.
YieldErrorUnseen(err) ==
    /\ pc' = "return"
    /\ UNCHANGED sink

\* yield(t, err); return
YieldError(err) ==
    /\ \E o \in Outcomes(Elem(Zero(T), err)) : Yield(Elem(Zero(T), err), o)
    /\ pc' = "return"

\* rows, err := q.QueryContext(ctx, query, args...)
scanQuery ==
    /\ pc = "query"
    /\ queries' = queries + 1
    /\ \/ /\ \E nr \in IsNoRows : YieldError(Error("query", nr))
          /\ UNCHANGED <<cursor, opens>>
       \/ /\ opened' = TRUE
          /\ opens' = opens + 1
          /\ pc' = "columns"
          /\ UNCHANGED <<columns, fields, pulled, nextCalls, scanCalls, closeCalls, sink>>
    /\ UNCHANGED <<config, result, runs, apart>>

\* columns, err := rows.Columns()
scanColumns ==
    /\ pc = "columns"
    /\ \/ /\ \E nr \in IsNoRows : YieldError(Error("columns", nr))
          /\ UNCHANGED cursor
       \/ /\ columns' = cols
          /\ pc' = "count"
          /\ UNCHANGED <<opened, fields, pulled, nextCalls, scanCalls, closeCalls, sink>>
    /\ UNCHANGED <<config, result, history, apart>>

\* if scannable && len(columns) > 1 { ... }; if scannable { ... } else { ... }
scanCount ==
    /\ pc = "count"
    /\ IF isScannable(derefType(T)) /\ Len(columns) > 1
       THEN YieldError(ColumnCountError)
       ELSE /\ pc' = IF isScannable(derefType(T)) THEN "next" ELSE "traversals"
            /\ UNCHANGED sink
    /\ UNCHANGED <<config, cursor, result, history, apart>>

\* fields := m.TraversalsByName(base, columns); missingFields check
scanTraversals ==
    /\ pc = "traversals"
    /\ fields' = TraversalsByName(T, columns)
    /\ LET isUnsafe == q.kind = "DB" /\ q.isUnsafe
           m == missingFields(fields')
       IN  IF m.err /\ ~isUnsafe
           THEN YieldError(MissingFieldError(columns[m.field]))
           ELSE pc' = "next" /\ UNCHANGED sink
    /\ UNCHANGED <<config, opened, columns, pulled, nextCalls, scanCalls, closeCalls, result, history, apart>>

\* for rows.Next() { ... }
scanNext ==
    /\ pc = "next"
    /\ nextCalls' = nextCalls + 1
    /\ IF pulled < avail
       THEN pulled' = pulled + 1 /\ pc' = "scan"
       ELSE pulled' = pulled /\ pc' = "err"
    /\ UNCHANGED <<config, opened, columns, fields, scanCalls, closeCalls, sink, result, history, apart>>

\* rows.Scan failed, and the loop goes on to the next row.
ScanFailureNoReturn ==
    \E nr \in IsNoRows :
        /\ \E o \in Outcomes(Elem(Zero(T), Error("scan", nr))) :
              Yield(Elem(Zero(T), Error("scan", nr)), o)
        /\ pc' = "next"

\* if err := rows.Scan(...); err != nil { yield(t, fmt.Errorf(...)); return }
ScanFailure == \E nr \in IsNoRows : YieldError(Error("scan", nr))

\* The loop body: decode the current row and yield it.
scanRow ==
    /\ pc = "scan"
    /\ IF isScannable(derefType(T))
       THEN /\ scanCalls' = scanCalls + 1
            /\ \/ ScanFailure
               \/ /\ Len(columns) = 1
                  /\ \E o \in Outcomes(Elem(DecodeScalar(T, pulled), Nil)) :
                        /\ Yield(Elem(DecodeScalar(T, pulled), Nil), o)
                        /\ pc' = IF o.cont THEN "next" ELSE "return"
       ELSE IF ~IsStruct(derefType(T))
       THEN scanCalls' = scanCalls /\ YieldError(NotStructError)
       ELSE /\ scanCalls' = scanCalls + 1
            /\ \/ ScanFailure
               \/ \E o \in Outcomes(Elem(DecodeStruct(T, fields, pulled), Nil)) :
                        /\ Yield(Elem(DecodeStruct(T, fields, pulled), Nil), o)
                        /\ pc' = IF o.cont THEN "next" ELSE "return"
    /\ UNCHANGED <<config, opened, columns, fields, pulled, nextCalls, closeCalls, result, history, apart>>

\* if err := rows.Err(); err != nil { ... }
scanErr ==
    /\ pc = "err"
    /\ \/ \E nr \in IsNoRows : YieldError(Error("cursor", nr))
       \/ pc' = "return" /\ UNCHANGED sink
    /\ UNCHANGED <<config, cursor, result, history, apart>>

\* scan closing the cursor at the end of the function only.
scanReturnNoDefer ==
    /\ pc = "return"
    /\ closeCalls' = IF opened /\ ~stopped /\ yields = <<>> THEN closeCalls + 1 ELSE closeCalls
    /\ pc' = "finish"
    /\ UNCHANGED <<config, opened, columns, fields, pulled, nextCalls, scanCalls, sink, result, history, apart>>

\* scan returns: defer func() { _ = rows.Close() }() runs if it was registered.
scanReturn ==
    /\ pc = "return"
    /\ closeCalls' = IF opened THEN closeCalls + 1 ELSE closeCalls
    /\ pc' = "finish"
    /\ UNCHANGED <<config, opened, columns, fields, pulled, nextCalls, scanCalls, sink, result, history, apart>>

\* The consumer's function returns, after the range statement is over.
consumerReturn ==
    /\ pc = "finish"
    /\ result' = IF ret.set THEN ret
                 ELSE IF consumer = "Collect" THEN sliceEnd(res)
                 ELSE IF consumer = "Get" THEN GetEnd
                 ELSE NoRet
    /\ pc' = "done"
    /\ UNCHANGED <<config, cursor, sink, history, apart>>

Next ==
    \/ scanQuery
    \/ scanColumns
    \/ scanCount
    \/ scanTraversals
    \/ scanNext
    \/ scanRow
    \/ scanErr
    \/ scanReturn
    \/ consumerReturn

Spec == Init /\ [][Next]_vars

SpecCollect == InitCollect /\ [][Next]_vars

\* scan[T] for a struct T, on a *DB opened with Unsafe, consumed directly.
InitLenient ==
    /\ Init
    /\ q.kind = "DB" /\ q.isUnsafe /\ ~isScannable(derefType(T))
    /\ chain = <<>>

SpecLenient == InitLenient /\ [][Next]_vars

\* for t, err := range Select[T](...)[.Filter / .Map]: the sequence, consumed
\* by a range statement that may break.
InitRange == Init /\ consumer = "range"

SpecRange == InitRange /\ [][Next]_vars

\* The caller ranges over the same Scanner value again: the function value
\* scan returned is called anew, with a new yield.
Reiterate ==
    /\ pc = "done"
    /\ runs < MaxRuns
    /\ runs' = runs + 1
    /\ pc' = "query"
    /\ opened' = FALSE
    /\ columns' = <<>> /\ fields' = <<>>
    /\ pulled' = 0
    /\ nextCalls' = 0 /\ scanCalls' = 0 /\ closeCalls' = 0
    /\ predCalls' = 0 /\ fnCalls' = 0
    /\ yields' = <<>> /\ delivered' = <<>>
    /\ stopped' = FALSE
    /\ res' = <<>> /\ ret' = NoRet /\ result' = NoRet
    /\ predLog' = <<>>
    /\ UNCHANGED <<config, queries, opens, apart>>

NextIter == Next \/ Reiterate

SpecIter == InitIter /\ [][NextIter]_vars

\* ---------------------------------------------------------------- getMapping
\* The struct types getMapping is run on: A, the type asked for, and B.
StructNames == {"A", "B"}

RootType == "A"

\* Field types a struct may declare (no struct holds itself by value).
FieldTypesOf(s) == IF s = "A" THEN {"int", "*A", "B", "*B"} ELSE {"int", "A", "*A", "*B"}

\* The other struct, as the type of an embedded field.
EmbeddableOf(s) == IF s = "A" THEN {"B", "*B"} ELSE {"A", "*A"}

\* reflect.StructField, as far as getMapping reads it: the db tag, Anonymous,
\* IsExported() and Type.  What a skipped field holds besides is read by
\* nothing, so one field stands for each way of being skipped.
FieldsOf(s) ==
    [tag : {""}, anon : {FALSE}, exp : {TRUE}, typ : FieldTypesOf(s)]
    \cup [tag : {"x", "y"}, anon : {FALSE}, exp : {TRUE}, typ : {"int"}]
    \cup [tag : {""}, anon : {TRUE}, exp : {TRUE}, typ : EmbeddableOf(s)]
    \cup [tag : {"x"}, anon : {TRUE}, exp : {TRUE}, typ : {IF s = "A" THEN "B" ELSE "*A"}]
    \cup [tag : {""}, anon : {FALSE}, exp : {FALSE}, typ : {"int"}]
    \cup [tag : {"-"}, anon : {FALSE}, exp : {TRUE},
          typ : {"int", IF s = "A" THEN "*B" ELSE "*A"}]

\* Some field of struct s of e has type B or *B.
Mentions(e, s, b) == \E k \in 1..Len(e[s]) : derefType(e[s][k].typ) = b

\* Type declarations getMapping can meet: B declared with fields only where
\* A mentions it, no struct inside itself by value.
Declared(e) ==
    /\ e["B"] # <<>> => Mentions(e, "A", "B")
    /\ ~(\E k \in 1..Len(e["A"]) : e["A"][k].typ = "B"
         /\ \E j \in 1..Len(e["B"]) : e["B"][j].typ = "A")

\* f.Name: the type's name for an embedded field, else the declared one.
FieldIdents == <<"F0", "F1", "F2", "F3", "F4", "F5">>

Identifier(f, k) == IF f.anon THEN derefType(f.typ) ELSE FieldIdents[k]

\* strings.ToLower, the mapFunc of DefaultMapper.
ToLower(s) ==
    CASE s = "A" -> "a" [] s = "B" -> "b"
      [] s = "F0" -> "f0" [] s = "F1" -> "f1" [] s = "F2" -> "f2"
      [] s = "F3" -> "f3" [] s = "F4" -> "f4" [] s = "F5" -> "f5"
      [] OTHER -> s

\* tag, name := parseName(f, tagName, mapFunc, tagMapFunc)
parseName(f, k) ==
    [tag |-> f.tag, name |-> IF f.tag # "" THEN f.tag ELSE ToLower(Identifier(f, k))]

\* getMapping skipping unexported fields only.
SkipsUnexported(f, name) == ~f.exp /\ ~f.anon

\* The two continue statements of getMapping's field loop.
Skips(f, name) == (~f.exp /\ ~f.anon) \/ name = "-"

\* FieldInfo.Field.Type of descriptor i of idx; 0 is root, whose Field is
\* the zero StructField.
FieldType(i, idx) == IF i = 0 THEN "nil" ELSE idx[i].typ

\* The Parent chain of descriptor i.
RECURSIVE Ancestors(_, _)
Ancestors(i, idx) ==
    IF i = 0 THEN {} ELSE {idx[i].parent} \cup Ancestors(idx[i].parent, idx)

\* IsRecursive finding no ancestor of the same type, ever.
IsRecursiveNever(i, idx) == FALSE

IsRecursive(i, idx) ==
    \E p \in Ancestors(i, idx) : FieldType(i, idx) = FieldType(p, idx)

\* FieldInfo.IsStruct: a struct, or a pointer to one.
FieldInfoIsStruct(typ) == IsStruct(typ) \/ (IsPtr(typ) /\ IsStruct(derefType(typ)))

Traversal(i, idx) == IF i = 0 THEN <<>> ELSE idx[i].traversal

\* The FieldInfo getMapping makes of field k (from 1) of tq.t.
NewFieldInfo(tq, k, f, pn, idx) ==
    [parent    |-> tq.fi,
     owner     |-> tq.t,
     pos       |-> k - 1,
     typ       |-> f.typ,
     name      |-> pn.name,
     path      |-> IF tq.parentPath = "" THEN pn.name ELSE tq.parentPath \o "." \o pn.name,
     embedded  |-> f.anon,
     traversal |-> Append(Traversal(tq.fi, idx), k - 1)]

typeQueue(t, fi, parentPath) == [t |-> t, fi |-> fi, parentPath |-> parentPath]

\* The prefix of an embedded field's children, the annotation forgotten.
promotedPathUntagged(tag, path, parentPath) == parentPath

\* pp := tq.parentPath; if tag != "" { pp = fi.Path }
promotedPath(tag, path, parentPath) == IF tag # "" THEN path ELSE parentPath

\* getMapping's field loop from field k of tq.t on: the index and the queue
\* it leaves.
RECURSIVE FieldLoop(_, _, _, _)
FieldLoop(tq, k, idx, qu) ==
    LET nChildren == IF IsStruct(tq.t) THEN Len(env[tq.t]) ELSE 0
    IN  IF k > nChildren THEN [Index |-> idx, queue |-> qu]
        ELSE LET f  == env[tq.t][k]
                 pn == parseName(f, k)
                 fi == NewFieldInfo(tq, k, f, pn, idx)
                 me == Len(idx) + 1
                 pp == promotedPath(pn.tag, fi.path, tq.parentPath)
             IN  IF Skips(f, pn.name) THEN FieldLoop(tq, k + 1, idx, qu)
                 ELSE FieldLoop(tq, k + 1, Append(idx, fi),
                        IF f.anon
                        THEN Append(qu, typeQueue(derefType(f.typ), me, pp))
                        ELSE IF FieldInfoIsStruct(f.typ)
                        THEN Append(qu, typeQueue(derefType(f.typ), me, fi.path))
                        ELSE qu)

\* getMapping(t, ...) is called: root, and the queue holding the type.
InitMapping ==
    /\ ScanIdle /\ MapperIdle /\ LoopIdle
    /\ \E a \in 0..MaxFields : \E b \in 0..(MaxFields - a) :
         \E x \in [1..a -> FieldsOf("A")], y \in [1..b -> FieldsOf("B")] :
            /\ env = [s \in StructNames |-> IF s = "A" THEN x ELSE y]
            /\ Declared(env)
    /\ queue = <<typeQueue(derefType(RootType), 0, "")>>
    /\ Index = <<>>
    /\ mpc = "bfs"
    /\ bpos = 0
    /\ paths = <<>> /\ Names = <<>>
    /\ travs = <<>>

\* One round of getMapping's loop: pop, and walk the fields of the type.
getMappingPop ==
    /\ mpc = "bfs"
    /\ queue # <<>>
    /\ Len(Index) < MaxIndex
    /\ LET tq == Head(queue)
       IN  IF IsRecursive(tq.fi, Index)
           THEN /\ queue' = Tail(queue)
                /\ Index' = Index
           ELSE /\ queue' = FieldLoop(tq, 1, Index, Tail(queue)).queue
                /\ Index' = FieldLoop(tq, 1, Index, Tail(queue)).Index
    /\ UNCHANGED <<env, mpc, bpos, paths, Names, travs, scanVars, mapperVars, loopVars>>

\* The queue is empty: getMapping calls buildStructMap(root, m).
getMappingBuild ==
    /\ mpc = "bfs"
    /\ queue = <<>>
    /\ mpc' = "build"
    /\ bpos' = 0
    /\ paths' = <<>> /\ Names' = <<>>
    /\ UNCHANGED <<env, queue, Index, travs, scanVars, mapperVars, loopVars>>

\* buildStructMap letting the last descriptor of a path have it.
DisplacesAlways(ok, fld) == TRUE

\* !ok || fld.Embedded
Displaces(ok, fld) == ~ok \/ fld.embedded

\* buildStructMap registering the embedded descriptors.
RegistersEmbedded(fi) == fi.name # "" /\ fi.embedded

\* fi.Name != "" && !fi.Embedded
Registers(fi) == fi.name # "" /\ ~fi.embedded

\* One round of buildStructMap's loop, on descriptor Index[bpos + 1].
buildStructMapStep ==
    /\ mpc = "build"
    /\ bpos < Len(Index)
    /\ LET i   == bpos + 1
           fi  == Index[i]
           ok  == fi.path \in DOMAIN paths
           fld == IF ok THEN Index[paths[fi.path]] ELSE fi
       IN  IF Displaces(ok, fld)
           THEN /\ paths' = (fi.path :> i) @@ paths
                /\ Names' = IF Registers(fi) THEN (fi.path :> i) @@ Names ELSE Names
           ELSE UNCHANGED <<paths, Names>>
    /\ bpos' = bpos + 1
    /\ UNCHANGED <<env, queue, Index, mpc, travs, scanVars, mapperVars, loopVars>>

\* return fields
buildStructMapReturn ==
    /\ mpc = "build"
    /\ bpos = Len(Index)
    /\ mpc' = "done"
    /\ UNCHANGED <<env, queue, Index, bpos, paths, Names, travs, scanVars, mapperVars, loopVars>>

NextMapping ==
    \/ getMappingPop
    \/ getMappingBuild
    \/ buildStructMapStep
    \/ buildStructMapReturn

SpecMapping == InitMapping /\ [][NextMapping]_vars

\* The declarations without annotations other than "-": an annotation sets
\* Name and Path only, which neither IsRecursive nor the queue's order reads.
InitMappingUntagged ==
    /\ InitMapping
    /\ \A s \in StructNames : \A k \in 1..Len(env[s]) : env[s][k].tag \in {"", "-"}

\* getMapping is straight-line sequential code: it keeps running.
SpecMappingFair == InitMappingUntagged /\ [][NextMapping]_vars /\ WF_vars(NextMapping)

\* ---------------------------------------------------------------- Mapper.TraversalsByName
\* The declarations of at most MaxDecl fields.
InitTraversals ==
    /\ InitMapping
    /\ Len(env["A"]) + Len(env["B"]) <= MaxDecl

\* The types TraversalsByName is called with: the mapped struct, a pointer to
\* it, and what is not a struct.
CallTypes == {"A", "*A", "string", "*string"}

\* The names asked for: registered ones, unregistered ones, repeats.
NameLists ==
    {<<>>, <<"nope">>, <<"f0", "nope", "x">>, <<"f0.f0", "f0">>, <<"x", "x">>}

\* m.TypeMap(t).Names, each name with the Traversal of its descriptor.
TypeMapTraversals == [n \in DOMAIN Names |-> Index[Names[n]].traversal]

\* m.TraversalsByName(t, names), once the StructMap of A is built.
TraversalsByNameCall ==
    /\ mpc = "done"
    /\ \E t \in CallTypes, names \in NameLists :
         travs' = IF ~IsStruct(derefType(t))
                  THEN [t |-> t, names |-> names, panic |-> TRUE, val |-> <<>>]
                  ELSE [t |-> t, names |-> names, panic |-> FALSE,
                        val |-> namedTraversals(TypeMapTraversals, names)]
    /\ mpc' = "called"
    /\ UNCHANGED <<env, queue, Index, bpos, paths, Names, scanVars, mapperVars, loopVars>>

NextTraversals ==
    \/ getMappingPop
    \/ getMappingBuild
    \/ buildStructMapStep
    \/ buildStructMapReturn
    \/ TraversalsByNameCall

SpecTraversals == InitTraversals /\ [][NextTraversals]_vars

\* ---------------------------------------------------------------- scan's row loops
\* The loops of scan with the storage they decode into.  Holder is
\* struct { FirstName string `db:"first_name"`; *Emailer }: a destination whose
\* email is reached through a pointer.
LoopTypes == {"string", "*string", "Person", "*Person", "Holder", "*Holder"}

\* The slots of an object of type t: its leaves by the indexes that reach
\* them inside the object; a pointer field is one slot.
Slots(t) ==
    CASE t = "Person"  -> Leaves("Person")
      [] t = "Holder"  -> {<<0>>, <<1>>}
      [] t = "Emailer" -> {<<0>>}
      [] OTHER         -> {<<>>}

\* The slots holding a pointer, and the type they point to.
PointerSlots(t) ==
    CASE t = "Holder"  -> {<<1>>}
      [] t = "*string" -> {<<>>}
      [] OTHER         -> {}

Pointee(t) == IF t = "Holder" THEN "Emailer" ELSE "string"

\* reflect.New(t).Elem(), new(T), var t T: a zero object; address 0 is nil.
New(t) == [t |-> t, f |-> [s \in Slots(t) |-> 0]]

\* fieldByIndexes(v, indexes) from slot `slot` of the object at `at`: the heap
\* it leaves and the location of the field.
RECURSIVE fieldByIndexes(_, _, _, _)
fieldByIndexes(h, at, slot, indexes) ==
    IF indexes = <<>> THEN [heap |-> h, at |-> at, slot |-> slot]
    ELSE LET s == Append(slot, Head(indexes))
         IN  IF s \in PointerSlots(h[at].t)
             THEN IF h[at].f[s] = 0
                  THEN LET alloc == Len(h) + 1
                       IN  fieldByIndexes(
                               Append([h EXCEPT ![at].f[s] = alloc], New(Pointee(h[at].t))),
                               alloc, <<>>, Tail(indexes))
                  ELSE fieldByIndexes(h, h[at].f[s], <<>>, Tail(indexes))
             ELSE fieldByIndexes(h, at, s, Tail(indexes))

\* fieldsByTraversal(v, traversals, values) from column i on, with the heap:
\* new(any) for an empty traversal, the address of the field otherwise.
RECURSIVE fieldsByTraversalAt(_, _, _, _, _)
fieldsByTraversalAt(h, v, traversals, i, vals) ==
    IF i > Len(traversals) THEN [heap |-> h, values |-> vals]
    ELSE IF Len(traversals[i]) = 0
    THEN fieldsByTraversalAt(Append(h, New("any")), v, traversals, i + 1,
                             [vals EXCEPT ![i] = [at |-> Len(h) + 1, slot |-> <<>>]])
    ELSE LET f == fieldByIndexes(h, v, <<>>, traversals[i])
         IN  fieldsByTraversalAt(f.heap, v, traversals, i + 1,
                                 [vals EXCEPT ![i] = [at |-> f.at, slot |-> f.slot]])

\* rows.Scan(values...) on row r from column c on: the cell is stored at
\* values[c]; a destination that is itself a pointer gets a new pointee.
RECURSIVE ScanAt(_, _, _, _)
ScanAt(h, vals, r, c) ==
    IF c > Len(vals) THEN h
    ELSE LET at   == vals[c].at
             slot == vals[c].slot
         IN  IF slot \in PointerSlots(h[at].t)
             THEN LET alloc == Len(h) + 1
                      o     == New(Pointee(h[at].t))
                  IN  ScanAt(Append([h EXCEPT ![at].f[slot] = alloc],
                                    [o EXCEPT !.f[<<>>] = Cell(r, c)]),
                             vals, r, c + 1)
             ELSE ScanAt([h EXCEPT ![at].f[slot] = Cell(r, c)], vals, r, c + 1)

\* scan[T] has checked the columns and is about to call rows.Next.
InitLoop ==
    /\ ScanIdle /\ MapperIdle /\ MappingIdle
    /\ dst \in LoopTypes
    /\ colnames \in SeqsUpTo(ColNames, MaxCols)
    /\ isScannable(derefType(dst)) => Len(colnames) <= 1
    /\ nrows \in 0..MaxRows
    /\ rowNo = 0
    /\ lpc = "next"
    /\ heap = <<>>
    /\ vp = 0
    \* values := make([]any, len(columns))
    /\ valuePtrs = [i \in 1..Len(colnames) |-> [at |-> 0, slot |-> <<>>]]
    /\ yielded = <<>>

\* for rows.Next()
loopNext ==
    /\ lpc = "next"
    /\ IF rowNo < nrows
       THEN rowNo' = rowNo + 1 /\ lpc' = "new"
       ELSE rowNo' = rowNo /\ lpc' = "done"
    /\ UNCHANGED <<dst, colnames, nrows, heap, vp, valuePtrs, yielded, scanVars, mapperVars, mappingVars>>

\* The destination allocated for the first row, and used again for the others.
loopNewOnce ==
    /\ lpc = "new"
    /\ IF isScannable(derefType(dst))
       THEN /\ heap' = IF vp = 0 THEN Append(heap, New(dst)) ELSE heap
            /\ valuePtrs' = <<[at |-> IF vp = 0 THEN Len(heap) + 1 ELSE vp, slot |-> <<>>]>>
            /\ lpc' = "scan"
       ELSE /\ heap' = IF vp = 0 THEN Append(heap, New(derefType(dst))) ELSE heap
            /\ valuePtrs' = valuePtrs
            /\ lpc' = "fields"
    /\ vp' = IF vp = 0 THEN Len(heap) + 1 ELSE vp
    /\ UNCHANGED <<dst, colnames, nrows, rowNo, yielded, scanVars, mapperVars, mappingVars>>

\* var t T (scalar); vp = reflect.New(base.Elem()) or t = new(T) (composite)
loopNew ==
    /\ lpc = "new"
    /\ IF isScannable(derefType(dst))
       THEN /\ heap' = Append(heap, New(dst))
            /\ valuePtrs' = <<[at |-> Len(heap) + 1, slot |-> <<>>]>>
            /\ lpc' = "scan"
       ELSE /\ heap' = Append(heap, New(derefType(dst)))
            /\ valuePtrs' = valuePtrs
            /\ lpc' = "fields"
    /\ vp' = Len(heap) + 1
    /\ UNCHANGED <<dst, colnames, nrows, rowNo, yielded, scanVars, mapperVars, mappingVars>>

\* fieldsByTraversal(v, fields, values)
loopFields ==
    /\ lpc = "fields"
    /\ LET r == fieldsByTraversalAt(heap, vp, TraversalsByName(dst, colnames), 1, valuePtrs)
       IN  heap' = r.heap /\ valuePtrs' = r.values
    /\ lpc' = "scan"
    /\ UNCHANGED <<dst, colnames, nrows, rowNo, vp, yielded, scanVars, mapperVars, mappingVars>>

\* rows.Scan(&t), rows.Scan(values...): it fails, and scan returns, or it
\* stores the row.
loopScan ==
    /\ lpc = "scan"
    /\ \/ lpc' = "done" /\ heap' = heap
       \/ /\ isScannable(derefType(dst)) => Len(colnames) = 1
          /\ heap' = ScanAt(heap, valuePtrs, rowNo, 1)
          /\ lpc' = "yield"
    /\ UNCHANGED <<dst, colnames, nrows, rowNo, vp, valuePtrs, yielded, scanVars, mapperVars, mappingVars>>

\* What yield is given: t or *t by value, or the pointer vp holds.
Yielded(h, v) ==
    IF isScannable(derefType(dst))
    THEN IF IsPtr(dst) THEN [k |-> "ref", at |-> h[v].f[<<>>]]
         ELSE [k |-> "copy", obj |-> h[v]]
    ELSE IF IsPtr(dst) THEN [k |-> "ref", at |-> v]
         ELSE [k |-> "copy", obj |-> h[v]]

\* if !yield(t, nil) { return }
loopYield ==
    /\ lpc = "yield"
    /\ yielded' = Append(yielded, Yielded(heap, vp))
    /\ \E cont \in BOOLEAN : lpc' = IF cont THEN "next" ELSE "done"
    /\ UNCHANGED <<dst, colnames, nrows, rowNo, heap, vp, valuePtrs, scanVars, mapperVars, mappingVars>>

NextLoop ==
    \/ loopNext
    \/ loopNew
    \/ loopFields
    \/ loopScan
    \/ loopYield

SpecLoop == InitLoop /\ [][NextLoop]_vars

\* ---------------------------------------------------------------- Mapper.TypeMap
Procs == 1..MaxProcs

\* The types TypeMap is asked for.
MapTypes == {"Person", "Emailer"}

\* NewMapperFunc: an empty cache, an unlocked mutex; no goroutine in TypeMap.
InitMapper ==
    /\ ScanIdle /\ MappingIdle /\ LoopIdle
    /\ cache = [t \in MapTypes |-> 0]
    /\ mutex = 0
    /\ tpc = [p \in Procs |-> "idle"]
    /\ targ = [p \in Procs |-> "Person"]
    /\ mapping = [p \in Procs |-> 0]
    /\ built = [t \in MapTypes |-> 0]
    /\ got = [t \in MapTypes |-> {}]
    /\ calls = [p \in Procs |-> 0]

\* Goroutine p calls m.TypeMap(t).
TypeMapCall(p, t) ==
    /\ tpc[p] = "idle"
    /\ calls[p] < MaxCalls
    /\ targ' = [targ EXCEPT ![p] = t]
    /\ mapping' = [mapping EXCEPT ![p] = 0]
    /\ tpc' = [tpc EXCEPT ![p] = "lock"]
    /\ UNCHANGED <<cache, mutex, built, got, calls, scanVars, mappingVars, loopVars>>

\* m.mutex.Lock() returning at once, whoever holds the mutex.
TypeMapLockFree(p) ==
    /\ tpc[p] = "lock"
    /\ mutex' = p
    /\ tpc' = [tpc EXCEPT ![p] = "lookup"]
    /\ UNCHANGED <<cache, targ, mapping, built, got, calls, scanVars, mappingVars, loopVars>>

\* m.mutex.Lock()
TypeMapLock(p) ==
    /\ tpc[p] = "lock"
    /\ mutex = 0
    /\ mutex' = p
    /\ tpc' = [tpc EXCEPT ![p] = "lookup"]
    /\ UNCHANGED <<cache, targ, mapping, built, got, calls, scanVars, mappingVars, loopVars>>

\* mapping, ok := m.cache[t]
TypeMapLookup(p) ==
    /\ tpc[p] = "lookup"
    /\ mapping' = [mapping EXCEPT ![p] = cache[targ[p]]]
    /\ tpc' = [tpc EXCEPT ![p] = IF cache[targ[p]] # 0 THEN "unlock" ELSE "build"]
    /\ UNCHANGED <<cache, mutex, targ, built, got, calls, scanVars, mappingVars, loopVars>>

\* mapping = getMapping(t, ...): a new *StructMap, the n-th built for t.
TypeMapBuild(p) ==
    /\ tpc[p] = "build"
    /\ built' = [built EXCEPT ![targ[p]] = @ + 1]
    /\ mapping' = [mapping EXCEPT ![p] = built[targ[p]] + 1]
    /\ tpc' = [tpc EXCEPT ![p] = "insert"]
    /\ UNCHANGED <<cache, mutex, targ, got, calls, scanVars, mappingVars, loopVars>>

\* m.cache[t] = mapping
TypeMapInsert(p) ==
    /\ tpc[p] = "insert"
    /\ cache' = [cache EXCEPT ![targ[p]] = mapping[p]]
    /\ tpc' = [tpc EXCEPT ![p] = "unlock"]
    /\ UNCHANGED <<mutex, targ, mapping, built, got, calls, scanVars, mappingVars, loopVars>>

\* m.mutex.Unlock()
TypeMapUnlock(p) ==
    /\ tpc[p] = "unlock"
    /\ mutex' = 0
    /\ tpc' = [tpc EXCEPT ![p] = "return"]
    /\ UNCHANGED <<cache, targ, mapping, built, got, calls, scanVars, mappingVars, loopVars>>

\* return mapping
TypeMapReturn(p) ==
    /\ tpc[p] = "return"
    /\ got' = [got EXCEPT ![targ[p]] = @ \cup {mapping[p]}]
    /\ calls' = [calls EXCEPT ![p] = @ + 1]
    /\ tpc' = [tpc EXCEPT ![p] = "idle"]
    /\ UNCHANGED <<cache, mutex, targ, mapping, built, scanVars, mappingVars, loopVars>>

NextMapper ==
    \/ \E p \in Procs, t \in MapTypes : TypeMapCall(p, t)
    \/ \E p \in Procs : TypeMapLock(p)
    \/ \E p \in Procs : TypeMapLookup(p)
    \/ \E p \in Procs : TypeMapBuild(p)
    \/ \E p \in Procs : TypeMapInsert(p)
    \/ \E p \in Procs : TypeMapUnlock(p)
    \/ \E p \in Procs : TypeMapReturn(p)

SpecMapper == InitMapper /\ [][NextMapper]_vars

TypeOK ==
    /\ pc \in {"query", "columns", "count", "traversals", "next", "scan", "err", "return", "finish", "done"}
    /\ pulled \in 0..avail
    /\ closeCalls \in 0..1

\* ---------------------------------------------------------------- properties
Finished == pc \in {"finish", "done"}

\* The engine failed somewhere: QueryContext, Columns, Scan or Err.
EngineError ==
    \E i \in 1..Len(yields) : yields[i].err.kind \in {"query", "columns", "scan", "cursor"}

\* rows.Columns() has answered without an error.
ColumnsReported ==
    /\ opened
    /\ pc \notin {"query", "columns"}
    /\ \A i \in 1..Len(yields) : yields[i].err.kind # "columns"

Composite == ~isScannable(derefType(T))

Lenient == q.kind = "DB" /\ q.isUnsafe

Mapped(c) == cols[c] \in DOMAIN TypeMapNames(derefType(T))

\* The columns fit the destination: one column for a scalar, only mapped
\* columns for a composite.
ColumnsMatch ==
    IF Composite THEN \A c \in 1..Len(cols) : Mapped(c) ELSE Len(cols) = 1

\* The columns pass scan's checks before the first row.
ColumnsAccepted ==
    IF Composite THEN Lenient \/ \A c \in 1..Len(cols) : Mapped(c)
    ELSE Len(cols) <= 1

Unwrap(v) == IF v.k = "ptr" THEN v.to ELSE v

\* What field p of the record decoded from row r must hold: the cell of the
\* (last) column whose name resolves to p, and the zero value without one.
ExpectedField(p, r) ==
    LET cs == {c \in 1..Len(cols) : Mapped(c) /\ TypeMapNames(derefType(T))[cols[c]] = p}
    IN  IF cs = {} THEN 0
        ELSE Cell(r, CHOOSE c \in cs : \A d \in cs : d <= c)

\* v is row r decoded as T.
IsRow(v, r) ==
    /\ (v.k = "ptr") <=> IsPtr(T)
    /\ IF Composite
       THEN /\ Unwrap(v).k = "struct"
            /\ \A p \in Leaves(derefType(T)) : Unwrap(v).f[p] = ExpectedField(p, r)
       ELSE Unwrap(v) = Scalar(Cell(r, 1))

\* C1: in an iteration of scan in which QueryContext returned a cursor,
\* rows.Close is called exactly once by the time scan has returned, whatever
\* the exit path, and never more than once before; it is never called when
\* QueryContext failed.
C1_CloseExactlyOnce ==
    /\ closeCalls <= (IF opened THEN 1 ELSE 0)
    /\ Finished => closeCalls = (IF opened THEN 1 ELSE 0)

C1_Witness ==
    /\ pc = "done" /\ opened /\ closeCalls = 1
    /\ stopped /\ pulled < avail /\ ~EngineError

\* The consumer stopped after the first of several available rows.
StoppedAfterOne ==
    /\ stopped
    /\ avail > 1
    /\ Len(delivered) = 1
    /\ delivered[1].err = Nil

\* C2: once a consumer has stopped after receiving 1 of N > 1 rows (directly
\* or through Filter / Map), rows.Next, rows.Scan, the predicate and the map
\* function are never called again, and the cursor is closed when scan is over.
C2_EarlyStop ==
    [][StoppedAfterOne =>
        /\ nextCalls' = nextCalls
        /\ scanCalls' = scanCalls
        /\ predCalls' = predCalls
        /\ fnCalls' = fnCalls
        /\ (pc' \in {"finish", "done"} => closeCalls' = 1)]_vars

C2_Witness ==
    /\ StoppedAfterOne /\ pc = "done" /\ closeCalls = 1
    /\ Len(chain) = 2 /\ chain[1] = "Filter" /\ chain[2] = "Map"
    /\ pulled = 1

ErrorDelivered == \E i \in 1..Len(delivered) : delivered[i].err # Nil

\* C3: in one iteration of Select, possibly wrapped in Filter / Map, only the
\* last element delivered can carry an error, and once an error has been
\* delivered no row is pulled (Next, Scan) and no element is yielded any more.
C3_ErrorIsLast ==
    [][/\ \A i \in 1..Len(delivered') : delivered'[i].err # Nil => i = Len(delivered')
       /\ ErrorDelivered =>
            /\ nextCalls' = nextCalls
            /\ scanCalls' = scanCalls
            /\ delivered' = delivered
            /\ yields' = yields]_vars

C3_Witness ==
    /\ pc = "done" /\ chain # <<>>
    /\ Len(delivered) = 2
    /\ delivered[1].err = Nil
    /\ delivered[2].err.kind = "scan"
    /\ delivered[2].val = ZeroU

\* C4: for a cursor holding K rows whose columns match the destination type
\* and with an engine that never fails, Select(...).Collect() returns a nil
\* error and exactly K values, the i-th being row i decoded.
C4_CollectRoundTrip ==
    (/\ pc = "done" /\ consumer = "Collect" /\ chain = <<>>
     /\ opened /\ ColumnsMatch /\ ~EngineError)
    => /\ result.set
       /\ result.err = Nil
       /\ result.val.k = "slice"
       /\ Len(result.val.elems) = avail
       /\ \A i \in 1..avail : IsRow(result.val.elems[i], i)

C4_Witness ==
    /\ pc = "done" /\ consumer = "Collect" /\ chain = <<>>
    /\ T = "*Person" /\ cols = <<"email", "first_name">>
    /\ avail >= 2 /\ result.err = Nil /\ Len(result.val.elems) = avail

NoRowsStrict == q.kind = "DB" /\ q.noRowsErr

\* Get ran against a query with zero rows and an engine that did not fail.
GetOnZeroRows ==
    /\ pc = "done" /\ consumer = "Get"
    /\ opened /\ avail = 0 /\ ~EngineError

\* C5 as stated: under the default configuration, Get against a query that
\* produces zero rows and no engine error returns the zero value of T and a
\* nil error.
C5_ZeroRowsAsStated ==
    (GetOnZeroRows /\ ~NoRowsStrict) => result = Return(Zero(T), Nil)

\* C5 amended: the same, for a query whose columns pass scan's checks for T
\* (at most one column for a scalar T; for a composite T no unmapped column,
\* unless the DB is unsafe).
C5_ZeroRows ==
    (GetOnZeroRows /\ ~NoRowsStrict /\ ColumnsAccepted) => result = Return(Zero(T), Nil)

C5_Witness ==
    /\ GetOnZeroRows /\ ~NoRowsStrict /\ ColumnsAccepted
    /\ q.kind = "other" /\ T = "Person" /\ Len(cols) = 2
    /\ result = Return(Zero(T), Nil) /\ nextCalls = 1

\* C6: with noRowsErr set on the *DB, Get against a query that produces zero
\* rows returns a NoRows error.
C6_StrictNoRows ==
    (GetOnZeroRows /\ NoRowsStrict /\ ColumnsAccepted)
    => (result.err # Nil /\ result.err.noRows)

C8_ScalarColumnCount ==
    (~Composite /\ ColumnsReported /\ pc # "count" /\ Len(cols) # 1)
    => /\ yields = <<Elem(Zero(T), ColumnCountError)>>
       /\ nextCalls = 0

\* C9: in strict mode, for a composite destination with a column that has no
\* traversal, scan yields as its only element a missing-field error naming
\* an unmapped column, and never calls rows.Next.
C9_StrictMissingField ==
    (/\ Composite /\ ~Lenient /\ ColumnsReported
     /\ pc \notin {"count", "traversals"}
     /\ \E c \in 1..Len(cols) : ~Mapped(c))
    => /\ Len(yields) = 1
       /\ yields[1].err.kind = "missing"
       /\ \E c \in 1..Len(cols) : ~Mapped(c) /\ yields[1].err.col = cols[c]
       /\ nextCalls = 0 /\ pulled = 0

C9_Witness ==
    /\ pc = "done" /\ T = "Person" /\ avail > 0
    /\ cols = <<"first_name", "nope">>
    /\ yields = <<Elem(Zero(T), MissingFieldError("nope"))>>

\* C10: in lenient mode, for a composite destination, an unmapped column is
\* no error: every row pulled is decoded and yielded, every field holds the
\* cell of the column mapped to it (zero without one), so the cell of an
\* unmapped column reaches no field.
C10_LenientDiscard ==
    (Composite /\ Lenient)
    => /\ \A i \in 1..Len(yields) : yields[i].err.kind \notin {"missing", "notstruct"}
       /\ \A i \in 1..Len(yields) : yields[i].err = Nil =>
            /\ IsRow(yields[i].val, i)
            /\ \A c \in 1..Len(cols) : ~Mapped(c) =>
                 \A p \in Leaves(derefType(T)) : Unwrap(yields[i].val).f[p] # Cell(i, c)
       /\ (pc = "next" /\ ~EngineError) => Len(yields) = pulled
       /\ (pc = "done" /\ ~EngineError /\ ~stopped /\ ColumnsReported) => Len(yields) = avail

C10_Witness ==
    /\ pc = "done" /\ Lenient /\ T = "Person"
    /\ cols = <<"nope", "email">>
    /\ Len(yields) = 2
    /\ yields[2].err = Nil
    /\ Unwrap(yields[2].val).f[<<3, 0>>] = Cell(2, 2)

\* fn applied n times.
RECURSIVE FnTimes(_, _)
FnTimes(v, n) == IF n = 0 THEN v ELSE Fn(FnTimes(v, n - 1))

\* Element e after n Map wrappers.
Lifted(e, n) ==
    IF n = 0 THEN e
    ELSE IF e.err # Nil THEN Elem(ZeroU, e.err)
    ELSE Elem(FnTimes(e.val, n), Nil)

\* Value elements among the first n elements scan yielded.
Values(n) == {i \in 1..n : yields[i].err = Nil}

\* C11: Collect / CollectCap return either every value delivered to them, in
\* order, with a nil error (and then they consumed the whole sequence), or a
\* nil slice with the first error delivered; the capacity hint plays no part.
C11_CollectAllOrNothing ==
    (pc = "done" /\ consumer = "Collect")
    => LET errs == {i \in 1..Len(delivered) : delivered[i].err # Nil}
       IN  IF errs = {}
           THEN /\ result = Return(SliceOf(FALSE, [i \in 1..Len(delivered) |-> delivered[i].val]), Nil)
                /\ ~stopped
           ELSE LET first == CHOOSE i \in errs : \A j \in errs : i <= j
                IN  result = Return(SliceOf(TRUE, <<>>), delivered[first].err)

C11_Witness ==
    /\ pc = "done" /\ consumer = "Collect" /\ cap = MaxCap
    /\ Len(delivered) = 2
    /\ delivered[1].err = Nil /\ delivered[2].err # Nil
    /\ result.val = SliceOf(TRUE, <<>>) /\ result.err = delivered[2].err

\* Map wrappers among wrappers lo..hi of the chain.
MapsIn(lo, hi) == Cardinality({i \in lo..hi : chain[i] = "Map"})

\* The only Filter of the chain, and the elements of its source.
FilterAt == CHOOSE i \in 1..Len(chain) : chain[i] = "Filter"

Source(j) == Lifted(yields[j], MapsIn(1, FilterAt - 1))

\* The first n source values the predicate accepted, as the consumer sees them.
RECURSIVE Kept(_)
Kept(n) ==
    IF n = 0 THEN <<>>
    ELSE Kept(n - 1) \o (IF predLog[n].accept
                         THEN <<Lifted(Source(n), MapsIn(FilterAt + 1, Len(chain)))>>
                         ELSE <<>>)

\* C12: with one Filter in the chain, its fn is called exactly once on each
\* value element of its source, in order, and never on an error element; the
\* consumer gets exactly the accepted elements, in source order, then the
\* source's error element if there is one, after which scan is over.
C12_Filter ==
    Cardinality({i \in 1..Len(chain) : chain[i] = "Filter"}) = 1
    => LET n == Cardinality(Values(Len(yields)))
           failed == n < Len(yields)
       IN  /\ Values(Len(yields)) = 1..n
           /\ Len(predLog) = n /\ predCalls = n
           /\ \A j \in 1..n : predLog[j].arg = Source(j).val
           /\ delivered = Kept(n) \o
                  (IF failed THEN <<Lifted(yields[n + 1], MapsIn(1, Len(chain)))>> ELSE <<>>)
           /\ failed => (Len(yields) = n + 1 /\ pc \in {"return", "finish", "done"})

C12_Witness ==
    /\ pc = "done" /\ chain = <<"Filter">>
    /\ Len(yields) = 2 /\ yields[2].err = Nil
    /\ ~predLog[1].accept /\ predLog[2].accept
    /\ delivered = <<yields[2]>>

\* C13: with only Map in the chain, every value element v of scan reaches
\* the consumer as fn(v), in order, fn being called once per value element
\* and wrapper, and an error element reaches it with the same error and the
\* zero U, fn not being called, after which scan is over.
C13_Map ==
    (chain # <<>> /\ \A i \in 1..Len(chain) : chain[i] = "Map")
    => /\ Len(delivered) = Len(yields)
       /\ \A j \in 1..Len(yields) :
            /\ delivered[j].err = yields[j].err
            /\ delivered[j].val = IF yields[j].err = Nil
                                  THEN FnTimes(yields[j].val, Len(chain))
                                  ELSE ZeroU
            /\ yields[j].err # Nil =>
                 (j = Len(yields) /\ pc \in {"return", "finish", "done"})
       /\ fnCalls = Len(chain) * Cardinality(Values(Len(yields)))

C13_Witness ==
    /\ pc = "done" /\ chain = <<"Map">>
    /\ Len(delivered) = 2
    /\ delivered[1] = Elem(Fn(yields[1].val), Nil)
    /\ delivered[2].err.kind = "scan" /\ delivered[2].val = ZeroU
    /\ fnCalls = 1

\* C14 as stated: once a Scanner value has been iterated, iterating it again
\* executes no query, opens no cursor and yields nothing.
C14_SinglePass ==
    runs >= 1 => (queries = 1 /\ opens <= 1 /\ yields = <<>>)

\* C15: whatever the interleaving of TypeMap calls on one Mapper, getMapping
\* runs at most once per type, all callers for a type get the same
\* *StructMap, and an entry of the cache is never removed or replaced.
C15_TypeMapOnce ==
    /\ [](\A t \in MapTypes :
            /\ built[t] <= 1
            /\ got[t] \subseteq {1}
            /\ got[t] # {} => cache[t] = 1)
    /\ [][\A t \in MapTypes : cache[t] # 0 => cache'[t] = cache[t]]_vars

C15_Witness ==
    /\ \A p \in Procs : tpc[p] = "idle" /\ calls[p] = MaxCalls
    /\ \A t \in MapTypes : built[t] = 1 /\ got[t] = {1} /\ cache[t] = 1

\* The search was never cut short.
IndexFits == Len(Index) < MaxIndex

\* The struct field descriptor i was made of.
Origin(i) == env[Index[i].owner][Index[i].pos + 1]

\* Descriptor i is a field the type asked for declares itself, not embedded.
Direct(i) == Index[i].parent = 0 /\ ~Index[i].embedded

\* Descriptor j is a field of an embedded sub-record.
Promoted(j) ==
    /\ Index[j].parent # 0
    /\ Index[Index[j].parent].embedded
    /\ ~Index[j].embedded

\* C16: in buildStructMap, a path held by a non-embedded descriptor keeps it
\* whatever comes later, an entry of Names is never replaced, and when a
\* field declared directly and a field promoted from an embedded sub-record
\* have the same path, Names maps it to a directly declared field.
C16_Shadowing ==
    /\ [](mpc = "done" =>
            \A i, j \in DOMAIN Index :
                (Direct(i) /\ Promoted(j) /\ Index[i].path = Index[j].path)
                => /\ Index[i].path \in DOMAIN Names
                   /\ Direct(Names[Index[i].path]))
    /\ [][(\A p \in DOMAIN paths : ~Index[paths[p]].embedded =>
                 (p \in DOMAIN paths' /\ paths'[p] = paths[p]))
           /\ (\A n \in DOMAIN Names :
                 (n \in DOMAIN Names' /\ Names'[n] = Names[n]))]_vars

C16_Witness ==
    /\ mpc = "done"
    /\ \E i, j \in DOMAIN Index :
         /\ Direct(i) /\ Promoted(j) /\ i < j
         /\ Index[i].path = Index[j].path
         /\ Names[Index[i].path] = i

\* The type asked for declares only annotated, non-embedded fields of no
\* struct type, and at least one.
AnnotatedFlat ==
    /\ env[RootType] # <<>>
    /\ \A k \in 1..Len(env[RootType]) :
         LET f == env[RootType][k]
         IN  f.tag # "" /\ ~f.anon /\ ~FieldInfoIsStruct(f.typ)

ResolvedNames == {parseName(env[RootType][k], k).name : k \in 1..Len(env[RootType])}

\* C17 as stated: N annotated, non-embedded fields and no nesting give Names
\* exactly N entries, keyed by the fields' resolved names.
C17_NameIndexCount ==
    (mpc = "done" /\ AnnotatedFlat)
    => /\ Cardinality(DOMAIN Names) = Len(env[RootType])
       /\ DOMAIN Names = ResolvedNames

\* C17 amended: the same, for exported fields whose annotations are pairwise
\* distinct and none of which is the sentinel "-"; each entry is then the
\* descriptor of the field of that name.
C17_NameIndexDistinct ==
    (/\ mpc = "done" /\ AnnotatedFlat
     /\ \A k \in 1..Len(env[RootType]) :
          env[RootType][k].exp /\ env[RootType][k].tag # "-"
     /\ \A k, l \in 1..Len(env[RootType]) :
          k # l => env[RootType][k].tag # env[RootType][l].tag)
    => /\ Cardinality(DOMAIN Names) = Len(env[RootType])
       /\ DOMAIN Names = ResolvedNames
       /\ \A k \in 1..Len(env[RootType]) :
            /\ Index[Names[env[RootType][k].tag]].traversal = <<k - 1>>
            /\ Index[Names[env[RootType][k].tag]].name = env[RootType][k].tag

C17_Witness ==
    /\ mpc = "done" /\ AnnotatedFlat
    /\ Len(env[RootType]) = 2
    /\ env[RootType][1].tag = "y" /\ env[RootType][2].tag = "x"
    /\ DOMAIN Names = {"x", "y"}
    /\ Index[Names["x"]].traversal = <<1>>

\* C18: getMapping terminates for every type, those that contain themselves
\* through pointer fields or embedded sub-records included: its queue runs
\* empty and buildStructMap returns.
C18_Terminates == <>(mpc = "done" /\ queue = <<>>)

C18_Witness ==
    /\ mpc = "done" /\ queue = <<>>
    /\ \E i, j \in DOMAIN Index :
         /\ IsRecursive(i, Index) /\ Index[i].embedded
         /\ IsRecursive(j, Index) /\ ~Index[j].embedded /\ IsPtr(Index[j].typ)

\* The type a node of the descriptor tree stands for; root stands for the
\* type asked for.
NodeType(a) == IF a = 0 THEN RootType ELSE Index[a].typ

\* C19 as stated: a descriptor whose type is the type of one of its strict
\* ancestors, root included, is in the index and is no descriptor's parent.
C19_RecursionLeaf ==
    \A i \in DOMAIN Index :
        (\E a \in Ancestors(i, Index) : NodeType(a) = Index[i].typ)
        => \A j \in DOMAIN Index : Index[j].parent # i

\* C20: no descriptor of the index, and so none of Names, is made of a field
\* named "-", nor has such a field above it; a struct reached through
\* skipped fields only gives the index nothing.
C20_SentinelExcluded ==
    /\ \A i \in DOMAIN Index :
         /\ Origin(i).tag # "-" /\ Index[i].name # "-"
         /\ Index[i].parent \in 0..(i - 1)
    /\ "-" \notin DOMAIN Names
    /\ \A p \in DOMAIN Names : Names[p] \in DOMAIN Index /\ Index[Names[p]].path = p
    /\ (\A k \in 1..Len(env["A"]) :
            derefType(env["A"][k].typ) = "B" => env["A"][k].tag = "-")
         => \A i \in DOMAIN Index : Index[i].owner # "B"

C20_Witness ==
    /\ mpc = "done"
    /\ Len(env["A"]) = 2
    /\ env["A"][1].tag = "-" /\ env["A"][1].typ = "*B"
    /\ env["A"][2].tag = "x"
    /\ Len(env["B"]) = 1 /\ env["B"][1].tag = "y"
    /\ Len(Index) = 1 /\ Index[1].traversal = <<1>>
    /\ DOMAIN Names = {"x"}

\* C21: TraversalsByName(t, names) on a struct type (or a pointer to one)
\* returns as many traversals as there are names, the i-th being the Traversal
\* of the descriptor Names has for names[i], or empty when Names has none; it
\* panics exactly when the type is not a struct.
C21_TraversalsByName ==
    mpc = "called" =>
        /\ travs.panic = ~IsStruct(derefType(travs.t))
        /\ ~travs.panic =>
            /\ Len(travs.val) = Len(travs.names)
            /\ \A i \in 1..Len(travs.names) :
                 IF travs.names[i] \in DOMAIN Names
                 THEN travs.val[i] = Index[Names[travs.names[i]]].traversal
                 ELSE travs.val[i] = <<>>

\* A call with a name the map lacks between two it has.
C21_Witness ==
    /\ mpc = "called" /\ ~travs.panic
    /\ travs.t = "*A"
    /\ travs.names = <<"f0", "nope", "x">>
    /\ travs.val = <<<<0>>, <<>>, <<1>>>>

\* T is not a struct, or has a Scan method.
ScalarAsStated == ~IsStruct(derefType(T)) \/ ImplementsScanner(derefType(T))

\* T is not a struct, has a Scan method, or is a struct in which the mapper
\* finds no field (time.Time).
ScalarDestination == ScalarAsStated \/ TypeMapIndexLen(derefType(T)) = 0

\* scan treats T as a scalar exactly when scalar holds: only a composite
\* destination has its columns resolved to fields, before any row is read, and
\* can miss a field; only a scalar one has its columns counted; each value
\* yielded has the shape of its class.
ClassifiedBy(scalar) ==
    /\ pc = "traversals" => ~scalar /\ nextCalls = 0 /\ pulled = 0
    /\ (pc \in {"next", "scan", "err"} /\ ~scalar) => Len(fields) = Len(columns)
    /\ \A i \in 1..Len(yields) :
         /\ yields[i].err = ColumnCountError => scalar
         /\ yields[i].err.kind = "missing" => ~scalar
         /\ yields[i].err = Nil => (Unwrap(yields[i].val).k = "scalar" <=> scalar)

\* C22 as stated: scan classifies the destination once, before any row is
\* read; it is scalar if and only if it is not a struct or has a Scan method,
\* and every other struct is composite, decoded by resolving columns to fields.
C22_Classification == ClassifiedBy(ScalarAsStated)

\* C22: scan classifies the destination once, before any row is read; it is
\* scalar if and only if it is not a struct, has a Scan method, or is a struct
\* without a mapped field; every other struct is composite, decoded by
\* resolving columns to fields.
C22_ClassificationByFields == ClassifiedBy(ScalarDestination)

\* A struct without a Scan method and without a mapped field, decoded from
\* the single column of each row.
C22_Witness ==
    /\ pc = "done" /\ T = "time.Time"
    /\ ~ImplementsScanner(T) /\ IsStruct(T)
    /\ Len(yields) = 2
    /\ yields[1] = Elem(Scalar(Cell(1, 1)), Nil)
    /\ yields[2] = Elem(Scalar(Cell(2, 1)), Nil)

\* C23: every failure of an iteration of scan is the error of an element it
\* yields, the last one, with the zero value, and the consumer receives it:
\* QueryContext failing, Columns failing, more than one column for a scalar,
\* a column without a field in strict mode, rows.Scan failing after the rows
\* decoded before it, and rows.Err once the rows have run out, after every
\* row was decoded and yielded, as exactly one last element.
C23_FailuresDelivered ==
    LET n == Len(yields)
        past(labels) == pc \notin labels
    IN  /\ \A i \in 1..n : yields[i].err # Nil =>
             /\ i = n
             /\ yields[i].val = Zero(T)
             /\ delivered # <<>>
             /\ delivered[Len(delivered)].err = yields[i].err
        /\ (past({"query"}) /\ ~opened) =>
             n = 1 /\ yields[1].err.kind = "query"
        /\ (past({"query", "columns"}) /\ opened /\ columns # cols) =>
             n = 1 /\ yields[1].err.kind = "columns"
        /\ (past({"query", "columns", "count"}) /\ opened /\ columns = cols
             /\ ~Composite /\ Len(cols) > 1) =>
             yields = <<Elem(Zero(T), ColumnCountError)>>
        /\ (past({"query", "columns", "count", "traversals"}) /\ opened /\ columns = cols
             /\ Composite /\ ~Lenient /\ \E c \in 1..Len(cols) : ~Mapped(c)) =>
             n = 1 /\ yields[1].err.kind = "missing"
        /\ scanCalls > Cardinality(Values(n)) =>
             /\ scanCalls = Cardinality(Values(n)) + 1
             /\ n = pulled
             /\ yields[n].err.kind = "scan"
        /\ \A i \in 1..n : yields[i].err.kind = "cursor" =>
             /\ i = avail + 1
             /\ pulled = avail
             /\ \A j \in 1..avail : yields[j].err = Nil /\ IsRow(yields[j].val, j)

\* rows.Err reports a fault after two rows were decoded and yielded.
C23_Witness ==
    /\ pc = "done" /\ avail = 2 /\ T = "Person"
    /\ Len(yields) = 3
    /\ IsRow(yields[1].val, 1) /\ IsRow(yields[2].val, 2)
    /\ yields[3] = Elem(Zero(T), Error("cursor", FALSE))

Join(prefix, name) == IF prefix = "" THEN name ELSE prefix \o "." \o name

\* The prefix the fields of node i are registered under, by the declarations:
\* none for root, the one of its parent for an embedded field without an
\* annotation, and for any other field that prefix and the field's name.
RECURSIVE Prefix(_)
Prefix(i) ==
    IF i = 0 THEN ""
    ELSE IF Index[i].embedded /\ Origin(i).tag = "" THEN Prefix(Index[i].parent)
    ELSE Join(Prefix(Index[i].parent), Index[i].name)

\* C24: a field of an embedded struct without an annotation has the path its
\* name has under the prefix of the embedding struct (its name alone at top
\* level); a field of an embedded struct with an annotation has the path its
\* name has under that prefix extended with the embedded field's name; its
\* Traversal is the embedded field's Traversal and then its own position.
C24_EmbeddedPrefix ==
    \A j \in DOMAIN Index :
        LET e == Index[j].parent
        IN  (e # 0 /\ Index[e].embedded) =>
              /\ Index[j].path =
                    IF Origin(e).tag = ""
                    THEN Join(Prefix(Index[e].parent), Index[j].name)
                    ELSE Join(Join(Prefix(Index[e].parent), Index[e].name), Index[j].name)
              /\ (Origin(e).tag = "" /\ Index[e].parent = 0) => Index[j].path = Index[j].name
              /\ Index[j].traversal = Append(Index[e].traversal, Index[j].pos)

\* type A struct { B `db:"x"` }; type B struct { *A; F1 int }: f1 of the
\* annotated B is x.f1, and the x of the A embedded without an annotation in
\* it is x.x.
C24_Witness ==
    /\ mpc = "done"
    /\ \E e, j \in DOMAIN Index :
         /\ Index[e].embedded /\ Origin(e).tag = "x" /\ Index[e].parent = 0
         /\ Index[j].parent = e /\ ~Index[j].embedded
         /\ Index[j].path = "x.f1" /\ Index[j].traversal = <<0, 1>>
    /\ \E e, j \in DOMAIN Index :
         /\ Index[e].embedded /\ Origin(e).tag = "" /\ Index[e].parent # 0
         /\ Index[j].parent = e
         /\ Index[j].path = "x.x" /\ Index[j].traversal = <<0, 0, 0>>

\* What a yielded value holds, pointers followed through heap h.
RECURSIVE DeepObj(_, _)
DeepObj(o, h) ==
    [s \in DOMAIN o.f |->
        IF s \in PointerSlots(o.t)
        THEN IF o.f[s] = 0 THEN <<>> ELSE <<DeepObj(h[o.f[s]], h)>>
        ELSE o.f[s]]

Deep(v, h) ==
    IF v.k = "copy" THEN <<DeepObj(v.obj, h)>>
    ELSE IF v.at = 0 THEN <<>>
    ELSE <<DeepObj(h[v.at], h)>>

\* The addresses a yielded value reaches.
RECURSIVE ReachObj(_, _)
ReachObj(o, h) ==
    UNION {IF o.f[s] = 0 THEN {} ELSE {o.f[s]} \cup ReachObj(h[o.f[s]], h) :
           s \in PointerSlots(o.t)}

Reach(v, h) ==
    IF v.k = "copy" THEN ReachObj(v.obj, h)
    ELSE IF v.at = 0 THEN {}
    ELSE {v.at} \cup ReachObj(h[v.at], h)

====
